---- MODULE Spec2Model ----
(***************************************************************************)
(* Model of the projection-and-clipping kernel of the sphere editor        *)
(* (geometry/projection.ts): sphere mapping, rotation, the three           *)
(* projections, tessellation, the two hemisphere clippers, the silhouette  *)
(* clipper and the pipeline projectShapeToXY.                              *)
(*                                                                         *)
(* Numbers are fixed point: a coordinate x stands for x / R, an angle k    *)
(* for k quarter-degrees (Turn of them make 2*pi), a UV value u for        *)
(* u / UVS.  Divisions truncate toward zero.                               *)
(***************************************************************************)
EXTENDS Integers, Sequences, FiniteSets, TLC

\* the call of a kernel function: its position, arguments, result, loop state
VARIABLES pc, call, ret, walk

\* the state of the App component: scene, history, future, sceneRef.current,
\* selectedIds and the shapeCounter of createId
VARIABLES scene, history, future, sceneRef, selectedIds, shapeCounter

\* the rotation angles and one display setting of the App component
VARIABLES rotX, rotY, rotZ, showGuides

\* the drag state of the UV editor (Null, or the id as [id |-> id] and the
\* pointer position as [u |-> u])
VARIABLES movingId, movingStart, movingSnapshot

\* the last handler that ran, the scene before each change not yet undone,
\* and the number of commands begun so far (a drag is one command)
VARIABLES lastOp, before, handled

\* the scene and history at the pointer-down of the drag in progress or just
\* finished, the pointer moves of that drag, and whether the last file load
\* showed the alert
VARIABLES gesture, moves, alerted

viewVars == <<rotX, rotY, rotZ, showGuides>>

editorVars == <<movingId, movingStart, movingSnapshot, moves>>

appVars == <<scene, history, future, sceneRef, selectedIds, shapeCounter, viewVars,
             editorVars, lastOp, before, handled, gesture, alerted>>

vars == <<pc, call, ret, walk, appVars>>

\* initialScene()
initialScene == [shapes |-> <<>>]

\* null / undefined
Null == [null |-> TRUE]

\* the App component as mounted, before any event
AppMounted ==
  /\ scene = initialScene
  /\ history = <<>>
  /\ future = <<>>
  /\ sceneRef = initialScene
  /\ selectedIds = {}
  /\ shapeCounter = 0
  /\ lastOp = "mount"
  /\ before = <<>>
  /\ handled = 0
  /\ rotX = 0 /\ rotY = 0 /\ rotZ = 0
  /\ showGuides = TRUE
  /\ movingId = Null /\ movingStart = Null /\ movingSnapshot = Null
  /\ gesture = Null
  /\ moves = 0
  /\ alerted = FALSE

(* ---------------------------------------------------------------------- *)
(* Fixed-point arithmetic                                                  *)
(* ---------------------------------------------------------------------- *)

\* the value 1.0 of a coordinate
R == 1024

\* angle units in a full turn (2 * Math.PI)
Turn == 1440

\* the value 1.0 of a UV coordinate
UVS == 720

Abs(x) == IF x < 0 THEN -x ELSE x

\* number division, truncated toward zero
Q(a, b) == IF (a >= 0) = (b > 0) THEN Abs(a) \div Abs(b) ELSE -(Abs(a) \div Abs(b))

Max(a, b) == IF a >= b THEN a ELSE b

\* R * cos of k quarter-degrees, k = 0 .. 360, truncated
CosTab == <<
    1024, 1023, 1023, 1023, 1023, 1023, 1023, 1023, 1023, 1023, 1023, 1022, 1022, 1022, 1022, 1021,
    1021, 1021, 1020, 1020, 1020, 1019, 1019, 1018, 1018, 1017, 1017, 1016, 1016, 1015, 1015, 1014,
    1014, 1013, 1012, 1012, 1011, 1010, 1009, 1009, 1008, 1007, 1006, 1006, 1005, 1004, 1003, 1002,
    1001, 1000, 999, 998, 997, 996, 995, 994, 993, 992, 991, 990, 989, 987, 986, 985,
    984, 983, 981, 980, 979, 977, 976, 975, 973, 972, 971, 969, 968, 966, 965, 963,
    962, 960, 959, 957, 955, 954, 952, 951, 949, 947, 946, 944, 942, 940, 939, 937,
    935, 933, 931, 929, 928, 926, 924, 922, 920, 918, 916, 914, 912, 910, 908, 906,
    904, 902, 899, 897, 895, 893, 891, 889, 886, 884, 882, 880, 877, 875, 873, 870,
    868, 866, 863, 861, 858, 856, 853, 851, 848, 846, 843, 841, 838, 836, 833, 831,
    828, 825, 823, 820, 817, 815, 812, 809, 806, 804, 801, 798, 795, 792, 790, 787,
    784, 781, 778, 775, 772, 769, 766, 763, 760, 757, 754, 751, 748, 745, 742, 739,
    736, 733, 730, 727, 724, 720, 717, 714, 711, 708, 704, 701, 698, 695, 691, 688,
    685, 681, 678, 675, 671, 668, 665, 661, 658, 654, 651, 647, 644, 640, 637, 633,
    630, 626, 623, 619, 616, 612, 609, 605, 601, 598, 594, 590, 587, 583, 579, 576,
    572, 568, 565, 561, 557, 553, 550, 546, 542, 538, 535, 531, 527, 523, 519, 515,
    512, 508, 504, 500, 496, 492, 488, 484, 480, 476, 472, 468, 464, 460, 456, 452,
    448, 444, 440, 436, 432, 428, 424, 420, 416, 412, 408, 404, 400, 395, 391, 387,
    383, 379, 375, 371, 366, 362, 358, 354, 350, 346, 341, 337, 333, 329, 324, 320,
    316, 312, 307, 303, 299, 295, 290, 286, 282, 277, 273, 269, 265, 260, 256, 252,
    247, 243, 239, 234, 230, 225, 221, 217, 212, 208, 204, 199, 195, 191, 186, 182,
    177, 173, 169, 164, 160, 155, 151, 146, 142, 138, 133, 129, 124, 120, 115, 111,
    107, 102, 98, 93, 89, 84, 80, 75, 71, 66, 62, 58, 53, 49, 44, 40,
    35, 31, 26, 22, 17, 13, 8, 4, 0
>>

\* Math.cos
Cos(k) ==
  LET m == k % Turn IN
    (IF m <= 360 \/ m > 1080 THEN 1 ELSE -1)
      * CosTab[(IF m <= 360 THEN m
                ELSE IF m <= 720 THEN 720 - m
                ELSE IF m <= 1080 THEN m - 720
                ELSE Turn - m) + 1]

\* Math.sin
Sin(k) == Cos(k - 360)

RECURSIVE SumOver(_, _, _)
\* the sum of f(i) for i = lo .. hi, a loop accumulating a number
SumOver(f(_), lo, hi) ==
  IF lo > hi THEN 0
  ELSE IF lo = hi THEN f(lo)
  ELSE LET mid == (lo + hi) \div 2 IN SumOver(f, lo, mid) + SumOver(f, mid + 1, hi)

RECURSIVE ConcatOver(_, _, _)
\* f(lo) \o ... \o f(hi), a loop pushing onto an array
ConcatOver(f(_), lo, hi) ==
  IF lo > hi THEN <<>>
  ELSE IF lo = hi THEN f(lo)
  ELSE LET mid == (lo + hi) \div 2 IN ConcatOver(f, lo, mid) \o ConcatOver(f, mid + 1, hi)

Vec3(x, y, z) == [x |-> x, y |-> y, z |-> z]

Vec2XY(x, y) == [x |-> x, y |-> y]

(* ---------------------------------------------------------------------- *)
(* Hemisphere clippers                                                     *)
(* ---------------------------------------------------------------------- *)

interpolateAtZ0(p0, p1) ==
  Vec3(p0.x + Q(p0.z * (p1.x - p0.x), p0.z - p1.z),
       p0.y + Q(p0.z * (p1.y - p0.y), p0.z - p1.z),
       0)

\* the points interpolateAtZ0 makes of the calls of one iteration
Interpolated(calls) == [k \in 1..Len(calls) |-> interpolateAtZ0(calls[k].p0, calls[k].p1)]

\* a loop that interpolates whenever the segment starts in front and is
\* not level
PolylineCrossingFromFront(points, i) ==
  LET current == points[i]
      next == points[(i % Len(points)) + 1]
  IN IF current.z >= 0 /\ current.z # next.z
       THEN <<[p0 |-> current, p1 |-> next]>> ELSE <<>>

\* the call of interpolateAtZ0 in iteration i of the polyline loop, if any
PolylineCrossing(points, i) ==
  LET current == points[i]
      next == points[(i % Len(points)) + 1]
      currentFront == current.z >= 0
      nextFront == next.z >= 0
  IN IF currentFront # nextFront THEN <<[p0 |-> current, p1 |-> next]>> ELSE <<>>

\* one iteration of the polyline loop: index i is 1-based here
PolylineStep(points, i) ==
  (IF points[i].z >= 0 THEN <<points[i]>> ELSE <<>>)
    \o Interpolated(PolylineCrossing(points, i))

PolylineLoop(points, count) ==
  LET body(i) == PolylineStep(points, i) IN ConcatOver(body, 1, count)

clipPolylineToFrontHemisphere(points, closed) ==
  IF Len(points) = 0 THEN <<>>
  ELSE PolylineLoop(points, IF closed THEN Len(points) ELSE Len(points) - 1)

\* the call of interpolateAtZ0 in iteration i of the Sutherland-Hodgman
\* loop, if any: on an entering edge before the push of current, on a
\* leaving edge instead of it
PolygonCrossing(output, i) ==
  LET current == output[i]
      prev == output[((i - 2 + Len(output)) % Len(output)) + 1]
      currentInside == current.z >= 0
      prevInside == prev.z >= 0
  IN IF currentInside
       THEN (IF ~prevInside THEN <<[p0 |-> prev, p1 |-> current]>> ELSE <<>>)
       ELSE IF prevInside THEN <<[p0 |-> prev, p1 |-> current]>> ELSE <<>>

\* one iteration of the Sutherland-Hodgman loop: index i is 1-based here
PolygonStep(output, i) ==
  Interpolated(PolygonCrossing(output, i))
    \o (IF output[i].z >= 0 THEN <<output[i]>> ELSE <<>>)

\* the loop with the crossing of an entering edge left out
PolygonStepNoEntry(output, i) ==
  LET current == output[i]
      prev == output[((i - 2 + Len(output)) % Len(output)) + 1]
  IN IF current.z >= 0 THEN <<current>>
     ELSE IF prev.z >= 0 THEN <<interpolateAtZ0(prev, current)>> ELSE <<>>

PolygonLoop(output) ==
  LET body(i) == PolygonStep(output, i) IN ConcatOver(body, 1, Len(output))

PolygonLoopNoEntry(output) ==
  LET body(i) == PolygonStepNoEntry(output, i) IN ConcatOver(body, 1, Len(output))

clipPolygonNoEntryCrossing(points) ==
  IF Len(points) = 0 THEN <<>> ELSE PolygonLoopNoEntry(points)

clipPolygonToFrontHemisphere(points) ==
  IF Len(points) = 0 THEN <<>> ELSE PolygonLoop(points)

(* ---------------------------------------------------------------------- *)
(* Silhouette clipper                                                      *)
(* ---------------------------------------------------------------------- *)

\* Euclid on values
GcdOf[a \in Nat, b \in Nat] == IF b = 0 THEN a ELSE GcdOf[b, a % b]

Gcd(a, b) == GcdOf[a, b]

\* floor of the square root of n, searched in lo .. hi - 1
IsqrtIn[n \in Nat, lo \in Nat, hi \in Nat] ==
  IF hi - lo <= 1 THEN lo
  ELSE IF ((lo + hi) \div 2) * ((lo + hi) \div 2) <= n
    THEN IsqrtIn[n, (lo + hi) \div 2, hi]
    ELSE IsqrtIn[n, lo, (lo + hi) \div 2]

\* Math.sqrt, rounded down
Isqrt(n) == IsqrtIn[n, 0, 46341]

\* digits kept behind the point of sqrtDisc
SqrtScale == 64

\* twice the signed area, in units of 1 / R^2 (only its sign is used)
polygonArea(points) ==
  LET term(i) == LET p1 == points[i]
                     p2 == points[(i % Len(points)) + 1]
                 IN p1.x * p2.y - p2.x * p1.y
  IN SumOver(term, 1, Len(points))

\* the unit-disc test with the circle itself left out
insideStrict(p) == p.x * p.x + p.y * p.y < R * R

\* a classification that takes every vertex for inside
insideAlways(p) == TRUE

\* the unit-disc test of clipFillWithArcs, tolerance 1e-9
inside(p) == p.x * p.x + p.y * p.y <= R * R + Q(R * R, 1000000000)

\* the roots without the test Math.abs(t2 - t1) > 1e-6: a double root twice
SegmentRootsNoDedup(p0, p1, nb, den, sLo, exact) ==
  LET sHi == IF exact THEN sLo ELSE sLo + 1
      t1ok == nb - sHi >= 0 /\ nb - sLo <= den
      t2ok == nb + sLo >= 0 /\ nb + sHi <= den
      at(num) == [point |-> Vec2XY(p0.x + Q(num * (p1.x - p0.x), den),
                                   p0.y + Q(num * (p1.y - p0.y), den)),
                  t |-> Q(num * R, den)]
  IN (IF t1ok THEN <<at(nb - sLo)>> ELSE <<>>) \o (IF t2ok THEN <<at(nb + sLo)>> ELSE <<>>)

\* the roots t1 <= t2 kept when they lie in [0, 1]; nb is -b, den is 2a and
\* sLo is sqrtDisc rounded down, all three scaled by SqrtScale
SegmentRoots(p0, p1, nb, den, sLo, exact) ==
  LET sHi == IF exact THEN sLo ELSE sLo + 1
      t1ok == nb - sHi >= 0 /\ nb - sLo <= den
      t2ok == nb + sLo >= 0 /\ nb + sHi <= den /\ 2 * sLo > Q(den, 1000000)
      at(num) == [point |-> Vec2XY(p0.x + Q(num * (p1.x - p0.x), den),
                                   p0.y + Q(num * (p1.y - p0.y), den)),
                  t |-> Q(num * R, den)]
  IN (IF t1ok THEN <<at(nb - sLo)>> ELSE <<>>) \o (IF t2ok THEN <<at(nb + sLo)>> ELSE <<>>)

\* the discriminant test and the degenerate segment
SegmentQuadratic(p0, p1, a, b, disc) ==
  IF disc < 0 THEN <<>>
  ELSE IF a = 0 THEN <<>>
  ELSE SegmentRoots(p0, p1, -(b * SqrtScale), 2 * a * SqrtScale,
                    Isqrt(disc * SqrtScale * SqrtScale),
                    Isqrt(disc * SqrtScale * SqrtScale) * Isqrt(disc * SqrtScale * SqrtScale)
                      = disc * SqrtScale * SqrtScale)

\* the coefficients a, b, c of the quadratic, in units of g
SegmentInUnits(p0, p1, g) ==
  LET x0 == p0.x \div g
      y0 == p0.y \div g
      dx == (p1.x \div g) - (p0.x \div g)
      dy == (p1.y \div g) - (p0.y \div g)
      r == R \div g
      a == dx * dx + dy * dy
      b == 2 * (x0 * dx + y0 * dy)
      c == x0 * x0 + y0 * y0 - r * r
  IN SegmentQuadratic(p0, p1, a, b, b * b - 4 * a * c)

\* a solver that never finds a root
noIntersections(p0, p1) == <<>>

\* the segment against the unit circle; the quadratic is solved in the
\* largest unit g that divides every coordinate and R
segmentCircleIntersections(p0, p1) ==
  SegmentInUnits(p0, p1,
                 Gcd(Gcd(Gcd(Abs(p0.x), Abs(p0.y)), Gcd(Abs(p1.x), Abs(p1.y))), R))

\* the largest k in lo .. hi - 1 whose direction is not past (ax, ay)
QuadAngleIn[ax \in Nat, ay \in Nat, lo \in Nat, hi \in Nat] ==
  IF hi - lo <= 1 THEN lo
  ELSE IF Cos((lo + hi) \div 2) * ay - Sin((lo + hi) \div 2) * ax >= 0
    THEN QuadAngleIn[ax, ay, (lo + hi) \div 2, hi]
    ELSE QuadAngleIn[ax, ay, lo, (lo + hi) \div 2]

\* k or k + 1, whichever direction lies nearer to (ax, ay)
QuadNearest[ax \in Nat, ay \in Nat, k \in Nat] ==
  IF k < 360 /\ ax * Cos(k + 1) + ay * Sin(k + 1) > ax * Cos(k) + ay * Sin(k)
    THEN k + 1 ELSE k

\* the angle of (ax, ay), ax >= 0, ay >= 0, to the nearest unit
QuadAngle(ax, ay) == QuadNearest[ax, ay, QuadAngleIn[ax, ay, 0, 361]]

\* the quadrant angle q carried to the quadrant of (x, y)
QuadrantOf(x, y, q) ==
  IF x = 0 /\ y = 0 THEN 0
  ELSE IF x >= 0 /\ y >= 0 THEN q
  ELSE IF x < 0 /\ y >= 0 THEN (Turn \div 2) - q
  ELSE IF x < 0 THEN q - (Turn \div 2)
  ELSE -q

\* Math.atan2, in angle units, in (-Turn/2, Turn/2]
Atan2(y, x) == QuadrantOf(x, y, QuadAngle(Abs(x), Abs(y)))

\* Math.PI / 90, the angular step of an arc
ArcStep == Turn \div 180

CeilDiv(a, b) == (a + b - 1) \div b

\* the samples i = 1 .. steps - 1 of an arc
ArcSamples(a0, delta, steps) ==
  [i \in 1..(steps - 1) |->
     LET ang == a0 + Q(delta * i, steps) IN Vec2XY(Cos(ang), Sin(ang))]

\* the arc of the given sweep, then its end point
ArcSweep(a0, delta, to) ==
  ArcSamples(a0, delta, Max(4, CeilDiv(Abs(delta), ArcStep))) \o <<to>>

\* delta brought to the sweep direction of the winding
ArcDelta(d0, ccw) ==
  IF ccw /\ d0 <= 0 THEN d0 + Turn
  ELSE IF ~ccw /\ d0 >= 0 THEN d0 - Turn
  ELSE d0

ArcBetween(a0, a1, to, ccw) == ArcSweep(a0, ArcDelta(a1 - a0, ccw), to)

arcPoints(from, to, ccw) ==
  ArcBetween(Atan2(from.y, from.x), Atan2(to.y, to.x), to, ccw)

\* one iteration of the edge walk, given what segmentCircleIntersections
\* returned for the edge; w holds output and pendingArcStart
FillEdgeWith(w, prev, curr, ccw, intersections) ==
  LET prevInside == inside(prev)
      currInside == inside(curr)
  IN IF prevInside /\ currInside
       THEN [w EXCEPT !.output = @ \o <<curr>>]
     ELSE IF prevInside /\ ~currInside
       THEN IF Len(intersections) > 0
              THEN [output |-> w.output \o <<intersections[1].point>>,
                    pendingArcStart |-> intersections[1].point]
              ELSE w
     ELSE IF ~prevInside /\ currInside
       THEN IF Len(intersections) > 0
              THEN LET entryPt == intersections[Len(intersections)].point IN
                     IF w.pendingArcStart # Null
                       THEN [output |-> w.output \o arcPoints(w.pendingArcStart, entryPt, ccw)
                                                 \o <<curr>>,
                             pendingArcStart |-> Null]
                       ELSE [w EXCEPT !.output = @ \o <<entryPt, curr>>]
              ELSE [w EXCEPT !.output = @ \o <<curr>>]
     ELSE IF Len(intersections) = 2
       THEN LET entry == intersections[1]
                exit == intersections[2]
            IN [output |-> w.output
                             \o (IF w.pendingArcStart # Null
                                   THEN arcPoints(w.pendingArcStart, entry.point, ccw)
                                   ELSE <<>>)
                             \o <<entry.point, exit.point>>,
                pendingArcStart |-> exit.point]
     ELSE w

\* one iteration of the edge walk in exact arithmetic
FillEdge(w, prev, curr, ccw) ==
  FillEdgeWith(w, prev, curr, ccw, segmentCircleIntersections(prev, curr))

\* a root at an end of the segment that lies on the circle: t is 0 or 1
\* up to rounding, and the end is inside only by the tolerance of inside
EndRoot(prev, curr, root) ==
  \/ root.t = 0 /\ prev.x * prev.x + prev.y * prev.y = R * R
  \/ root.t = R /\ curr.x * curr.x + curr.y * curr.y = R * R

\* what segmentCircleIntersections can return in floating point: the tests
\* t >= 0 && t <= 1 have no tolerance, so a root at an end of the segment is
\* kept or lost with the rounding of t (and is absent when the end lies
\* outside the circle by less than the 1e-9 of inside)
RoundedRoots(prev, curr) ==
  { segmentCircleIntersections(prev, curr),
    SelectSeq(segmentCircleIntersections(prev, curr),
              LAMBDA root : ~EndRoot(prev, curr, root)) }

\* a walk that never closes the pending arc
FillCloseNoArc(w, ccw) == w.output

\* the closing arc after the last edge
FillClose(w, ccw) ==
  IF w.pendingArcStart # Null /\ Len(w.output) > 0
    THEN w.output \o arcPoints(w.pendingArcStart, w.output[1], ccw)
    ELSE w.output

FillPrev(points, i) == IF i = 1 THEN points[Len(points)] ELSE points[i - 1]

RECURSIVE FillLoop(_, _, _, _)
\* the edge walk from vertex i on; w is the state after the edges before i
\* (the test on w.output only makes it computed before the next iteration)
FillLoop(points, i, w, ccw) ==
  IF Len(w.output) >= 0 /\ i > Len(points) THEN w
  ELSE FillLoop(points, i + 1, FillEdge(w, FillPrev(points, i), points[i], ccw), ccw)

FillStart == [output |-> <<>>, pendingArcStart |-> Null]

clipFillWithArcs(points) ==
  IF Len(points) = 0 THEN <<>>
  ELSE LET ccw == polygonArea(points) >= 0 IN
         FillClose(FillLoop(points, 1, FillStart, ccw), ccw)

(* ---------------------------------------------------------------------- *)
(* Sphere mapping, rotation, projection                                    *)
(* ---------------------------------------------------------------------- *)

Vec2(u, v) == [u |-> u, v |-> v]

\* orientation is Null when the optional argument is left out
orientUV(point, orientation) ==
  IF orientation = Null THEN point
  ELSE Vec2(IF orientation.flipU THEN UVS - point.u ELSE point.u,
            IF orientation.flipV THEN UVS - point.v ELSE point.v)

\* the mapping with the factor cos(phi) of x and z left out
uvToSphereNoLatitudeFactor(u, v) ==
  LET theta == Q(Turn * u, UVS) - (Turn \div 2)
      phi == Q((Turn \div 2) * v, UVS) - (Turn \div 4)
  IN Vec3(Cos(theta), Sin(phi), Sin(theta))

\* the mapping with the y and z axes exchanged
uvToSphereAxesSwapped(u, v) ==
  LET theta == Q(Turn * u, UVS) - (Turn \div 2)
      phi == Q((Turn \div 2) * v, UVS) - (Turn \div 4)
  IN Vec3(Q(Cos(phi) * Cos(theta), R), Q(Cos(phi) * Sin(theta), R), Sin(phi))

uvToSphere(u, v) ==
  LET theta == Q(Turn * u, UVS) - (Turn \div 2)
      phi == Q((Turn \div 2) * v, UVS) - (Turn \div 4)
  IN Vec3(Q(Cos(phi) * Cos(theta), R), Sin(phi), Q(Cos(phi) * Sin(theta), R))

\* rot holds rx, ry, rz in angle units
\* the matrix Rx of the rotation about X by alpha, applied to p
RotX(p, alpha) ==
  Vec3(p.x,
       Q(p.y * Cos(alpha), R) - Q(p.z * Sin(alpha), R),
       Q(p.y * Sin(alpha), R) + Q(p.z * Cos(alpha), R))

\* the matrix Ry of the rotation about Y by beta, applied to p
RotY(p, beta) ==
  Vec3(Q(p.x * Cos(beta), R) + Q(p.z * Sin(beta), R),
       p.y,
       Q(-p.x * Sin(beta), R) + Q(p.z * Cos(beta), R))

\* the matrix Rz of the rotation about Z by gamma, applied to p
RotZ(p, gamma) ==
  Vec3(Q(p.x * Cos(gamma), R) - Q(p.y * Sin(gamma), R),
       Q(p.x * Sin(gamma), R) + Q(p.y * Cos(gamma), R),
       p.z)

\* the rotations composed as Rx * Ry * Rz: about Z first, about X last
applyRotationZFirst(p, rot) == RotX(RotY(RotZ(p, rot.rz), rot.ry), rot.rx)

\* the rotation about X with the sign of its sine terms exchanged
applyRotationLeftHandedX(p, rot) == RotZ(RotY(RotX(p, -rot.rx), rot.ry), rot.rz)

applyRotation(p, rot) ==
  LET sinX == Sin(rot.rx)
      cosX == Cos(rot.rx)
      sinY == Sin(rot.ry)
      cosY == Cos(rot.ry)
      sinZ == Sin(rot.rz)
      cosZ == Cos(rot.rz)
      x1 == p.x
      y1 == Q(p.y * cosX, R) - Q(p.z * sinX, R)
      z1 == Q(p.y * sinX, R) + Q(p.z * cosX, R)
      x2 == Q(x1 * cosY, R) + Q(z1 * sinY, R)
      y2 == y1
      z2 == Q(-x1 * sinY, R) + Q(z1 * cosY, R)
      x3 == Q(x2 * cosZ, R) - Q(y2 * sinZ, R)
      y3 == Q(x2 * sinZ, R) + Q(y2 * cosZ, R)
      z3 == z2
  IN Vec3(x3, y3, z3)

\* an orthographic projection onto a disc of twice the radius
projectOrthographicDoubled(p, allowBack) ==
  IF ~allowBack /\ p.z < 0 THEN Null ELSE Vec2XY(2 * p.x, 2 * p.y)

\* a cull that also drops the points on the limb, z = 0
projectOrthographicCullsLimb(p, allowBack) ==
  IF ~allowBack /\ p.z <= 0 THEN Null ELSE Vec2XY(p.x, p.y)

projectOrthographic(p, allowBack) ==
  IF ~allowBack /\ p.z < 0 THEN Null ELSE Vec2XY(p.x, p.y)

\* default camera distance of projectPerspective
CameraZ == 4

projectPerspective(p) ==
  LET denom == CameraZ * R - p.z IN
    IF denom <= 0 THEN Null
    ELSE Vec2XY(Q(p.x * CameraZ * R, denom), Q(p.y * CameraZ * R, denom))

projectStereographic(p) ==
  LET denom == R - p.z IN
    IF denom * 1000000 <= R THEN Null
    ELSE Vec2XY(Q(p.x * R, denom), Q(p.y * R, denom))

\* the if / ternary chain on the projection mode
projectByMode(p, projection, allowBack) ==
  IF projection = "orthographic" THEN projectOrthographic(p, allowBack)
  ELSE IF projection = "perspective" THEN projectPerspective(p)
  ELSE projectStereographic(p)

uvPointToXY(point, rotation, projection, orientation, includeBackFaces) ==
  LET oriented == orientUV(point, orientation)
      spherePoint == uvToSphere(oriented.u, oriented.v)
      rotated == applyRotation(spherePoint, rotation)
  IN projectByMode(rotated, projection, includeBackFaces)

(* ---------------------------------------------------------------------- *)
(* Tessellation                                                            *)
(* ---------------------------------------------------------------------- *)

Tess(points, closed) == [points |-> points, closed |-> closed, threw |-> FALSE]

\* reading a property of undefined
TypeError == [points |-> <<>>, closed |-> FALSE, threw |-> TRUE]

sampleLine(shape, samples) ==
  Tess([k \in 1..(samples + 1) |->
          Vec2(shape.a.u + Q((k - 1) * (shape.b.u - shape.a.u), samples),
               shape.a.v + Q((k - 1) * (shape.b.v - shape.a.v), samples))],
       FALSE)

sampleRect(shape, samples) ==
  LET perEdge == Max(2, samples \div 4)
      corners == << Vec2(shape.origin.u, shape.origin.v),
                    Vec2(shape.origin.u + shape.size.w, shape.origin.v),
                    Vec2(shape.origin.u + shape.size.w, shape.origin.v + shape.size.h),
                    Vec2(shape.origin.u, shape.origin.v + shape.size.h) >>
      edgePoints(e) ==
        LET start == corners[e]
            end == corners[(e % 4) + 1]
        IN [k \in 1..(perEdge + 1) |->
              Vec2(start.u + Q((k - 1) * (end.u - start.u), perEdge),
                   start.v + Q((k - 1) * (end.v - start.v), perEdge))]
  IN Tess(ConcatOver(edgePoints, 1, 4), TRUE)

\* a circle of 64 steps whatever the density
sampleCircleFixedSteps(shape, samples) ==
  IF "center" \notin DOMAIN shape THEN TypeError
  ELSE Tess([k \in 1..65 |->
               LET t == Q((k - 1) * Turn, 64) IN
                 Vec2(shape.center.u + Q(shape.radius * Cos(t), R),
                      shape.center.v + Q(shape.radius * Sin(t), R))],
            TRUE)

\* the latitude ring reported as an open curve
sampleLatitudeOpen(shape, samples) ==
  Tess([k \in 1..(samples + 1) |-> Vec2(Q((k - 1) * UVS, samples), shape.v)], FALSE)

sampleCircle(shape, samples) ==
  LET steps == Max(64, samples * 2) IN
    IF "center" \notin DOMAIN shape THEN TypeError
    ELSE Tess([k \in 1..(steps + 1) |->
                 LET t == Q((k - 1) * Turn, steps) IN
                   Vec2(shape.center.u + Q(shape.radius * Cos(t), R),
                        shape.center.v + Q(shape.radius * Sin(t), R))],
              TRUE)

samplePolygon(shape, samples) ==
  Tess([k \in 1..(shape.sides + 1) |->
          LET ang == shape.rotation + Q((k - 1) * Turn, shape.sides) IN
            Vec2(shape.center.u + Q(shape.radius * Cos(ang), R),
                 shape.center.v + Q(shape.radius * Sin(ang), R))],
       TRUE)

sampleLatitude(shape, samples) ==
  Tess([k \in 1..(samples + 1) |-> Vec2(Q((k - 1) * UVS, samples), shape.v)], TRUE)

\* the ring sampled for i < samples, its last sample at v = 1 left out
sampleLongitudeHalfOpen(shape, samples) ==
  Tess([k \in 1..samples |-> Vec2(shape.u, Q((k - 1) * UVS, samples))], TRUE)

sampleLongitude(shape, samples) ==
  Tess([k \in 1..(samples + 1) |-> Vec2(shape.u, Q((k - 1) * UVS, samples))], TRUE)

tessellateShape(shape, samples) ==
  IF shape.type = "line" THEN sampleLine(shape, samples)
  ELSE IF shape.type = "rect" THEN sampleRect(shape, samples)
  ELSE IF shape.type = "polygon" THEN samplePolygon(shape, samples)
  ELSE IF shape.type = "latitude" THEN sampleLatitude(shape, samples)
  ELSE IF shape.type = "longitude" THEN sampleLongitude(shape, samples)
  ELSE sampleCircle(shape, samples)

(* ---------------------------------------------------------------------- *)
(* Pipeline                                                                *)
(* ---------------------------------------------------------------------- *)

\* for (const p of ...) { const xy = ...; if (xy) target.push(xy) }
ProjectAll(pts, projection, allowBack) ==
  SelectSeq([k \in 1..Len(pts) |-> projectByMode(pts[k], projection, allowBack)],
            LAMBDA xy : xy # Null)

\* a split that sends the samples on the limb to the back
GoesFrontStrict(p) == p.z > 0

\* const target = p.z >= 0 ? front : back
GoesFront(p) == p.z >= 0

\* a non-split path that clips every closed shape as a polygon
HemiChoiceByClosed(shape, closed, includeBackFaces) ==
  IF includeBackFaces THEN "none" ELSE IF closed THEN "polygon" ELSE "polyline"

\* a non-split path that never clips against the hemisphere
HemiChoiceNone(shape, closed, includeBackFaces) == "none"

\* which hemisphere clipper the non-split path picks
HemiChoice(shape, closed, includeBackFaces) ==
  IF includeBackFaces THEN "none"
  ELSE IF shape.type = "latitude" \/ shape.type = "longitude" THEN "polyline-wrap"
  ELSE IF closed THEN "polygon"
  ELSE "polyline"

\* the condition guarding the call of clipFillWithArcs
RunsFill(shape, closed, projection) ==
  closed /\ shape.type # "line" /\ projection = "orthographic"

\* a split branch guarded by splitBackFaces alone
TakesSplitOnFlagAlone(includeBackFaces, splitBackFaces) == splitBackFaces

\* the condition guarding the split branch
TakesSplit(includeBackFaces, splitBackFaces) == includeBackFaces /\ splitBackFaces

\* the result; the field backPoints exists only on the split branch; split,
\* hemi and fill record the branch taken, the clipper used and whether
\* clipFillWithArcs was called; threw marks a call ended by an exception
projectShapeToXY(shape, rotation, samples, projection, orientation, includeBackFaces, splitBackFaces) ==
  LET tess == tessellateShape(shape, samples)
      uvPoints == tess.points
      closed == tess.closed
      rotated == [k \in 1..Len(uvPoints) |->
                    LET oriented == orientUV(uvPoints[k], orientation) IN
                      applyRotation(uvToSphere(oriented.u, oriented.v), rotation)]
      hemi == HemiChoice(shape, closed, includeBackFaces)
      clipped3D == IF hemi = "none" THEN rotated
                   ELSE IF hemi = "polyline-wrap" THEN clipPolylineToFrontHemisphere(rotated, TRUE)
                   ELSE IF hemi = "polygon" THEN clipPolygonToFrontHemisphere(rotated)
                   ELSE clipPolylineToFrontHemisphere(rotated, closed)
      projected == ProjectAll(clipped3D, projection, includeBackFaces)
      fill == RunsFill(shape, closed, projection)
  IN IF tess.threw
       THEN [threw |-> TRUE, points |-> <<>>, closed |-> FALSE,
             split |-> FALSE, hemi |-> "none", fill |-> FALSE]
     ELSE IF TakesSplit(includeBackFaces, splitBackFaces)
       THEN [threw |-> FALSE,
             points |-> ProjectAll(SelectSeq(rotated, LAMBDA p : GoesFront(p)), projection, TRUE),
             backPoints |-> ProjectAll(SelectSeq(rotated, LAMBDA p : ~GoesFront(p)), projection, TRUE),
             closed |-> closed, split |-> TRUE, hemi |-> "none", fill |-> FALSE]
     ELSE [threw |-> FALSE,
           points |-> IF fill THEN clipFillWithArcs(projected) ELSE projected,
           closed |-> closed, split |-> FALSE, hemi |-> hemi, fill |-> fill]

(* ---------------------------------------------------------------------- *)
(* Specification of the hemisphere clippers on arbitrary point sequences   *)
(* ---------------------------------------------------------------------- *)

\* longest point sequence handed to a clipper
MaxPts == 4

\* points in front of, on and behind the plane z = 0
HemiPool ==
  { Vec3(512, 0, 512), Vec3(256, 256, 768), Vec3(-512, 256, 0),
    Vec3(0, 512, -512), Vec3(0, -512, -256) }

SeqsUpTo(S, n) == UNION { [1..k -> S] : k \in 0..n }

NoWalk == [active |-> FALSE]

NoRet == <<>>

InitHemi ==
  /\ pc = "ready"
  /\ \E pts \in SeqsUpTo(HemiPool, MaxPts) :
       \/ call = [fn |-> "clipPolygonToFrontHemisphere", points |-> pts, closed |-> TRUE]
       \/ \E c \in BOOLEAN :
            call = [fn |-> "clipPolylineToFrontHemisphere", points |-> pts, closed |-> c]
  /\ ret = NoRet
  /\ walk = NoWalk
  /\ AppMounted

CallClipPolygon ==
  /\ pc = "ready"
  /\ call.fn = "clipPolygonToFrontHemisphere"
  /\ ret' = clipPolygonToFrontHemisphere(call.points)
  /\ pc' = "done"
  /\ UNCHANGED <<call, walk, appVars>>

CallClipPolyline ==
  /\ pc = "ready"
  /\ call.fn = "clipPolylineToFrontHemisphere"
  /\ ret' = clipPolylineToFrontHemisphere(call.points, call.closed)
  /\ pc' = "done"
  /\ UNCHANGED <<call, walk, appVars>>

NextHemi == CallClipPolygon \/ CallClipPolyline

SpecHemi == InitHemi /\ [][NextHemi]_vars

(* ---------------------------------------------------------------------- *)
(* Properties of the hemisphere clippers                                   *)
(* ---------------------------------------------------------------------- *)

Front(p) == p.z >= 0

\* how many indices i in lo..hi satisfy P(i)
CountIdx(P(_), lo, hi) == Cardinality({i \in lo..hi : P(i)})

NumFront(pts) == LET P(i) == Front(pts[i]) IN CountIdx(P, 1, Len(pts))

CycPrev(pts, i) == pts[((i - 2 + Len(pts)) % Len(pts)) + 1]

\* cyclically consecutive pairs on opposite sides of z = 0
NumCyclicCrossings(pts) ==
  LET P(i) == Front(pts[i]) # Front(CycPrev(pts, i)) IN CountIdx(P, 1, Len(pts))

\* consecutive pairs (no wrap) on opposite sides of z = 0
NumOpenCrossings(pts) ==
  LET P(i) == Front(pts[i]) # Front(pts[i + 1]) IN CountIdx(P, 1, Len(pts) - 1)

RECURSIVE IsSubseq(_, _)
\* s appears in t in order (not necessarily contiguously)
IsSubseq(s, t) ==
  IF Len(s) = 0 THEN TRUE
  ELSE IF Len(t) = 0 THEN FALSE
  ELSE IF Head(s) = Head(t) THEN IsSubseq(Tail(s), Tail(t))
  ELSE IsSubseq(s, Tail(t))

\* output slots used by the input vertices before index i in the polygon clip
PolySlotsBefore(pts, i) ==
  LET P(j) == Front(pts[j])
      X(j) == Front(pts[j]) # Front(CycPrev(pts, j))
  IN CountIdx(P, 1, i - 1) + CountIdx(X, 1, i - 1)

\* C1: the polygon clip returns exactly the input vertices with z >= 0, in
\* input order, with one z = 0 crossing between each cyclically consecutive
\* pair on opposite sides: all-front input comes back unchanged, all-back
\* input comes back empty.
C1_PolygonClipExact ==
  (pc = "done" /\ call.fn = "clipPolygonToFrontHemisphere") =>
    LET pts == call.points IN
      /\ Len(ret) = NumFront(pts) + NumCyclicCrossings(pts)
      /\ IsSubseq(SelectSeq(pts, Front), ret)
      /\ \A i \in 1..Len(pts) :
           LET base == PolySlotsBefore(pts, i)
               crossed == Front(pts[i]) # Front(CycPrev(pts, i))
           IN /\ crossed => ret[base + 1].z = 0
              /\ Front(pts[i]) => ret[base + (IF crossed THEN 2 ELSE 1)] = pts[i]
      /\ (\A i \in 1..Len(pts) : pts[i].z > 0) => ret = pts
      /\ (\A i \in 1..Len(pts) : pts[i].z < 0) => ret = <<>>

\* a polygon with vertices on both sides has been clipped
C1_Witness ==
  /\ pc = "done"
  /\ call.fn = "clipPolygonToFrontHemisphere"
  /\ NumCyclicCrossings(call.points) >= 2
  /\ Len(ret) = NumFront(call.points) + 2

\* C2: the open polyline clip keeps every input point with z >= 0, the last
\* one included, in input order, and inserts one crossing per straddling
\* consecutive pair.
C2_OpenClipKeepsEveryFrontPoint ==
  (pc = "done" /\ call.fn = "clipPolylineToFrontHemisphere" /\ ~call.closed) =>
    /\ IsSubseq(SelectSeq(call.points, Front), ret)
    /\ Len(ret) = NumFront(call.points) + NumOpenCrossings(call.points)

(* ---------------------------------------------------------------------- *)
(* Specification of the silhouette clipper, one edge per step              *)
(* ---------------------------------------------------------------------- *)

\* most vertices of a polygon handed to the silhouette clipper
MaxPoly == 3

\* vertices inside, on and outside the unit circle
FillPool ==
  { Vec2XY(0, 0), Vec2XY(512, 0), Vec2XY(-512, 512),
    Vec2XY(1024, 0), Vec2XY(0, -1024),
    Vec2XY(1536, 512), Vec2XY(-1536, 512), Vec2XY(1024, 1024), Vec2XY(0, 1536),
    Vec2XY(-1024, 1024) }

InitFill ==
  /\ pc = "ready"
  /\ \E pts \in SeqsUpTo(FillPool, MaxPoly) : call = [fn |-> "clipFillWithArcs", points |-> pts]
  /\ ret = NoRet
  /\ walk = NoWalk
  /\ AppMounted

\* the early return on an empty polygon
FillEmpty ==
  /\ pc = "ready"
  /\ call.fn = "clipFillWithArcs"
  /\ Len(call.points) = 0
  /\ ret' = <<>>
  /\ pc' = "done"
  /\ UNCHANGED <<call, walk, appVars>>

\* winding, empty output, no pending arc
FillBegin ==
  /\ pc = "ready"
  /\ call.fn = "clipFillWithArcs"
  /\ Len(call.points) > 0
  /\ walk' = [active |-> TRUE, i |-> 1, ccw |-> polygonArea(call.points) >= 0,
               output |-> <<>>, pendingArcStart |-> Null]
  /\ pc' = "walking"
  /\ UNCHANGED <<call, ret, appVars>>

\* one iteration of for (const curr of points)
FillWalk ==
  /\ pc = "walking"
  /\ walk.i <= Len(call.points)
  /\ \E intersections \in RoundedRoots(FillPrev(call.points, walk.i), call.points[walk.i]) :
       LET w == FillEdgeWith([output |-> walk.output, pendingArcStart |-> walk.pendingArcStart],
                             FillPrev(call.points, walk.i), call.points[walk.i], walk.ccw,
                             intersections)
       IN walk' = [walk EXCEPT !.i = @ + 1, !.output = w.output,
                               !.pendingArcStart = w.pendingArcStart]
  /\ UNCHANGED <<pc, call, ret, appVars>>

\* the closing arc and the return
FillReturn ==
  /\ pc = "walking"
  /\ walk.i > Len(call.points)
  /\ ret' = FillClose([output |-> walk.output, pendingArcStart |-> walk.pendingArcStart], walk.ccw)
  /\ pc' = "done"
  /\ UNCHANGED <<call, walk, appVars>>

NextFill == FillEmpty \/ FillBegin \/ FillWalk \/ FillReturn

SpecFill == InitFill /\ [][NextFill]_vars

(* ---------------------------------------------------------------------- *)
(* Properties of the silhouette clipper                                    *)
(* ---------------------------------------------------------------------- *)

Norm2(p) == p.x * p.x + p.y * p.y

\* x^2 + y^2 = 1 within one percent
OnCircle(p) == Abs(Norm2(p) - R * R) <= Q(R * R, 100)

FillDone == pc = "done" /\ call.fn = "clipFillWithArcs"

\* the edge walk and the closed form used by the pipeline agree when no
\* vertex lies on the circle
FillWalkMatchesFunction ==
  (FillDone /\ \A i \in 1..Len(call.points) :
                 call.points[i].x * call.points[i].x + call.points[i].y * call.points[i].y # R * R)
    => ret = clipFillWithArcs(call.points)

\* C7: a polygon whose vertices all satisfy x^2 + y^2 <= 1 comes back from
\* the silhouette clipper unchanged: same vertices, same order, same count.
C7_AllInsideUnchanged ==
  (FillDone /\ \A i \in 1..Len(call.points) : Norm2(call.points[i]) <= R * R) =>
    ret = call.points

\* a triangle with a vertex on the circle and one strictly inside came back
C7_Witness ==
  /\ FillDone
  /\ Len(call.points) = 3
  /\ \A i \in 1..3 : Norm2(call.points[i]) <= R * R
  /\ \E i \in 1..3 : Norm2(call.points[i]) = R * R
  /\ \E i \in 1..3 : Norm2(call.points[i]) < R * R
  /\ ret = call.points

\* C8: a polygon with a vertex classified inside and a vertex classified
\* outside comes back with at least one point on the unit circle.
C8_StraddlingTouchesCircle ==
  (/\ FillDone
   /\ \E i \in 1..Len(call.points) : inside(call.points[i])
   /\ \E i \in 1..Len(call.points) : ~inside(call.points[i])) =>
    \E k \in 1..Len(ret) : OnCircle(ret[k])

\* a straddling polygon none of whose vertices is on the circle got a
\* computed point on the circle
C8_Witness ==
  /\ FillDone
  /\ \E i \in 1..Len(call.points) : inside(call.points[i])
  /\ \E i \in 1..Len(call.points) : ~inside(call.points[i])
  /\ \A i \in 1..Len(call.points) : ~OnCircle(call.points[i])
  /\ \E k \in 1..Len(ret) : OnCircle(ret[k])

(* ---------------------------------------------------------------------- *)
(* Specification of the pipeline entry points                              *)
(* ---------------------------------------------------------------------- *)

\* shapes in front, behind and across the limb, and two shapes whose tag
\* the tessellator does not handle: the imported svg shape (no center) and
\* a variant that happens to carry center and radius
ShapePool ==
  { [type |-> "line", a |-> Vec2(540, 360), b |-> Vec2(620, 400)],
    [type |-> "line", a |-> Vec2(300, 300), b |-> Vec2(600, 420)],
    [type |-> "rect", origin |-> Vec2(500, 320), size |-> [w |-> 80, h |-> 80]],
    [type |-> "rect", origin |-> Vec2(320, 300), size |-> [w |-> 100, h |-> 100]],
    [type |-> "circle", center |-> Vec2(540, 360), radius |-> 60],
    [type |-> "circle", center |-> Vec2(360, 360), radius |-> 72],
    [type |-> "circle", center |-> Vec2(180, 360), radius |-> 40],
    [type |-> "polygon", center |-> Vec2(540, 360), radius |-> 100, sides |-> 5, rotation |-> 0],
    [type |-> "polygon", center |-> Vec2(400, 360), radius |-> 100, sides |-> 3, rotation |-> 120],
    [type |-> "latitude", v |-> 360],
    [type |-> "latitude", v |-> 180],
    [type |-> "longitude", u |-> 180],
    [type |-> "longitude", u |-> 540],
    [type |-> "longitude", u |-> 300],
    [type |-> "svg", origin |-> Vec2(360, 360), scale |-> 1],
    [type |-> "ellipse", center |-> Vec2(540, 360), radius |-> 60] }

HandledTypes == {"line", "rect", "polygon", "latitude", "longitude", "circle"}

Rot(rx, ry, rz) == [rx |-> rx, ry |-> ry, rz |-> rz]

RotationPool == { Rot(0, 0, 0), Rot(360, 0, 0), Rot(0, 360, 0), Rot(0, 0, 180), Rot(120, 240, 0) }

\* requested sample densities
SamplePool == {4, 8}

\* ProjectionType, and one string outside it
ProjectionTypes == {"orthographic", "perspective", "stereographic"}

ProjectionPool == ProjectionTypes \cup {"mercator"}

OrientationPool == { Null, [flipU |-> TRUE, flipV |-> FALSE] }

UvPool == { Vec2(540, 360), Vec2(180, 360), Vec2(360, 90), Vec2(0, 720) }

InitPipe ==
  /\ pc = "ready"
  /\ \E rot \in RotationPool, proj \in ProjectionPool, ori \in OrientationPool, inc \in BOOLEAN :
       \/ \E sh \in ShapePool, n \in SamplePool, split \in BOOLEAN :
            call = [fn |-> "projectShapeToXY", shape |-> sh, rotation |-> rot, samples |-> n,
                    projection |-> proj, orientation |-> ori,
                    includeBackFaces |-> inc, splitBackFaces |-> split]
       \/ \E pt \in UvPool :
            call = [fn |-> "uvPointToXY", point |-> pt, rotation |-> rot,
                    projection |-> proj, orientation |-> ori, includeBackFaces |-> inc]
  /\ ret = NoRet
  /\ walk = NoWalk
  /\ AppMounted

CallProjectShape ==
  /\ pc = "ready"
  /\ call.fn = "projectShapeToXY"
  /\ ret' = projectShapeToXY(call.shape, call.rotation, call.samples, call.projection,
                             call.orientation, call.includeBackFaces, call.splitBackFaces)
  /\ pc' = "done"
  /\ UNCHANGED <<call, walk, appVars>>

CallUvPoint ==
  /\ pc = "ready"
  /\ call.fn = "uvPointToXY"
  /\ ret' = [threw |-> FALSE,
             point |-> uvPointToXY(call.point, call.rotation, call.projection,
                                   call.orientation, call.includeBackFaces)]
  /\ pc' = "done"
  /\ UNCHANGED <<call, walk, appVars>>

NextPipe == CallProjectShape \/ CallUvPoint

SpecPipe == InitPipe /\ [][NextPipe]_vars

(* ---------------------------------------------------------------------- *)
(* Properties of the pipeline                                              *)
(* ---------------------------------------------------------------------- *)

ShapeDone == pc = "done" /\ call.fn = "projectShapeToXY"

IsRing(shape) == shape.type \in {"latitude", "longitude"}

\* the rotated samples of the call
RotatedSamples ==
  LET uv == tessellateShape(call.shape, call.samples).points IN
    [k \in 1..Len(uv) |->
       LET o == orientUV(uv[k], call.orientation) IN
         applyRotation(uvToSphere(o.u, o.v), call.rotation)]

\* C3: in the non-split path the silhouette clipper runs exactly when the
\* projection is orthographic and the shape is closed and not a latitude or
\* longitude ring.
C3_FillOnlyForClosedNonRings ==
  (ShapeDone /\ ~ret.threw /\ ~ret.split) =>
    (ret.fill <=> (call.projection = "orthographic" /\ ret.closed /\ ~IsRing(call.shape)))

\* C4: whenever splitBackFaces is set, whatever includeBackFaces is, the
\* result has two sequences and no clipping is applied.
C4_SplitWheneverFlagSet ==
  (ShapeDone /\ ~ret.threw /\ call.splitBackFaces) =>
    /\ "backPoints" \in DOMAIN ret
    /\ ret.hemi = "none"
    /\ ~ret.fill

\* C4 as amended: the split branch is taken exactly when both
\* includeBackFaces and splitBackFaces are set; it then returns the samples
\* with z >= 0 and the samples with z < 0 as two sequences, each projected
\* with back faces allowed, with no hemisphere and no silhouette clipping;
\* with splitBackFaces alone the ordinary path runs and there is no
\* backPoints.
C4_SplitNeedsBothFlags ==
  (ShapeDone /\ ~ret.threw) =>
    /\ (call.includeBackFaces /\ call.splitBackFaces) =>
         /\ "backPoints" \in DOMAIN ret
         /\ ret.hemi = "none"
         /\ ~ret.fill
         /\ call.projection = "orthographic" =>
              /\ ret.points = [k \in 1..Len(ret.points) |->
                                 LET p == SelectSeq(RotatedSamples, Front)[k] IN Vec2XY(p.x, p.y)]
              /\ ret.backPoints = [k \in 1..Len(ret.backPoints) |->
                                     LET p == SelectSeq(RotatedSamples, LAMBDA q : q.z < 0)[k]
                                     IN Vec2XY(p.x, p.y)]
              /\ Len(ret.points) + Len(ret.backPoints) = Len(RotatedSamples)
    /\ ~(call.includeBackFaces /\ call.splitBackFaces) =>
         /\ "backPoints" \notin DOMAIN ret
         /\ ~ret.split

\* a shape across the limb was split into a front and a back sequence
C4_Witness ==
  /\ ShapeDone
  /\ call.includeBackFaces /\ call.splitBackFaces
  /\ "backPoints" \in DOMAIN ret
  /\ Len(ret.points) > 0
  /\ Len(ret.backPoints) > 0

\* C5: a projection value outside the enumeration makes uvPointToXY and
\* projectShapeToXY fail; no projected point is returned.
C5_UnknownProjectionFails ==
  (pc = "done" /\ call.fn \in {"projectShapeToXY", "uvPointToXY"}
     /\ call.projection \notin ProjectionTypes) =>
    ret.threw

\* C6: a shape whose type tag is not a handled variant makes the call fail
\* before any point is produced.
C6_UnknownShapeFails ==
  (ShapeDone /\ call.shape.type \notin HandledTypes) =>
    ret.threw /\ ret.points = <<>>

EquatorCall ==
  /\ call.fn = "projectShapeToXY"
  /\ call.shape = [type |-> "latitude", v |-> 360]
  /\ call.rotation = Rot(0, 0, 0)
  /\ call.projection = "orthographic"
  /\ ~call.includeBackFaces
  /\ ~call.splitBackFaces

\* C9: the equator at default rotation under orthographic projection is a
\* closed curve every point of which lies on the limb.
C9_EquatorOnLimb ==
  (pc = "done" /\ EquatorCall) =>
    ret.closed /\ \A k \in 1..Len(ret.points) : OnCircle(ret.points[k])

\* C9 as amended: the equator at default rotation under orthographic
\* projection is returned with closed = true and every point on the
\* horizontal diameter y = 0 of the disc (x^2 <= 1); it meets the limb only
\* at its ends.
C9_EquatorOnDiameter ==
  (pc = "done" /\ EquatorCall) =>
    /\ ret.closed
    /\ \A k \in 1..Len(ret.points) :
         ret.points[k].y = 0 /\ ret.points[k].x * ret.points[k].x <= R * R

\* the equator was projected and has a point well inside the disc
C9_Witness ==
  /\ pc = "done"
  /\ EquatorCall
  /\ ret.closed
  /\ \E k \in 1..Len(ret.points) : ret.points[k].y = 0 /\ Abs(ret.points[k].x) < R \div 2

MeridianCall(u) ==
  /\ call.fn = "projectShapeToXY"
  /\ call.shape = [type |-> "longitude", u |-> u]
  /\ call.rotation = Rot(0, 0, 0)
  /\ call.projection = "orthographic"
  /\ call.orientation = Null
  /\ ~call.includeBackFaces
  /\ ~call.splitBackFaces

IsPole(p) == p.x = 0 /\ Abs(p.y) = R

\* C10: the longitude ring at u = 0.25, default rotation, orthographic, is
\* returned as one visible arc that starts at (0,-1) and ends at (0,1), with
\* no point of the back half and no point emitted twice.
C10_QuarterMeridianVisibleArc ==
  (pc = "done" /\ MeridianCall(180)) =>
    /\ Len(ret.points) >= 3
    /\ ret.points[1] = Vec2XY(0, -R)
    /\ ret.points[Len(ret.points)] = Vec2XY(0, R)
    /\ \A j, k \in 1..Len(ret.points) : j # k => ret.points[j] # ret.points[k]

\* C10 as amended: the ring at u = 0.25 is the back meridian: every sample
\* strictly between the poles has z < 0 and is culled, so the result holds
\* no arc, at most pole points; the visible meridian is the ring at
\* u = 0.75, returned as every sample once, in order, from (0,-1) to (0,1).
C10_BackMeridianCulledFrontMeridianKept ==
  /\ (pc = "done" /\ MeridianCall(180)) =>
       \A k \in 1..Len(ret.points) : IsPole(ret.points[k])
  /\ (pc = "done" /\ MeridianCall(540)) =>
       /\ Len(ret.points) = call.samples + 1
       /\ ret.points[1] = Vec2XY(0, -R)
       /\ ret.points[Len(ret.points)] = Vec2XY(0, R)
       /\ \A k \in 1..Len(ret.points) :
            /\ ret.points[k] = Vec2XY(RotatedSamples[k].x, RotatedSamples[k].y)
            /\ RotatedSamples[k].z >= 0
       /\ \A j, k \in 1..Len(ret.points) : j # k => ret.points[j] # ret.points[k]

\* both meridians were projected: the back one left nothing between the
\* poles, the front one came back whole
C10_Witness ==
  /\ pc = "done"
  /\ MeridianCall(540)
  /\ call.samples = 8
  /\ Len(ret.points) = 9

(* ---------------------------------------------------------------------- *)
(* The mapping functions called one at a time                              *)
(* ---------------------------------------------------------------------- *)

\* points in front of, on and behind the plane z = 0, on and off the axes
VecPool ==
  { Vec3(R, 0, 0), Vec3(0, R, 0), Vec3(0, 0, R), Vec3(0, 0, -R),
    Vec3(R, 2 * R, 3 * R), Vec3(-R, R, 0), Vec3(512, -256, -1), Vec3(0, 0, 0) }

\* the quarter turns of one axis
QuarterTurns == { 0, Turn \div 4, Turn \div 2, 3 * (Turn \div 4) }

\* u and v inside and outside [0, 1], in steps of 1/12
UvGrid == { 60 * k : k \in 0..16 } \cup { -60, -300 }

DensityPool == { 1, 16, 32, 33, 40, 48 }

CirclePool ==
  { [type |-> "circle", center |-> Vec2(540, 360), radius |-> 60],
    [type |-> "circle", center |-> Vec2(360, 360), radius |-> 72] }

InitMap ==
  /\ pc = "ready"
  /\ \/ \E p \in VecPool, rx \in QuarterTurns, ry \in QuarterTurns, rz \in QuarterTurns :
          call = [fn |-> "applyRotation", p |-> p, rot |-> Rot(rx, ry, rz)]
     \/ \E p \in VecPool, allowBack \in BOOLEAN :
          call = [fn |-> "projectOrthographic", p |-> p, allowBack |-> allowBack]
     \/ \E u \in UvGrid, v \in UvGrid :
          call = [fn |-> "uvToSphere", u |-> u, v |-> v]
     \/ \E sh \in CirclePool, d \in DensityPool :
          call = [fn |-> "sampleCircle", shape |-> sh, samples |-> d]
  /\ ret = NoRet
  /\ walk = NoWalk
  /\ AppMounted

CallApplyRotation ==
  /\ pc = "ready"
  /\ call.fn = "applyRotation"
  /\ ret' = applyRotation(call.p, call.rot)
  /\ pc' = "done"
  /\ UNCHANGED <<call, walk, appVars>>

CallProjectOrthographic ==
  /\ pc = "ready"
  /\ call.fn = "projectOrthographic"
  /\ ret' = projectOrthographic(call.p, call.allowBack)
  /\ pc' = "done"
  /\ UNCHANGED <<call, walk, appVars>>

CallUvToSphere ==
  /\ pc = "ready"
  /\ call.fn = "uvToSphere"
  /\ ret' = uvToSphere(call.u, call.v)
  /\ pc' = "done"
  /\ UNCHANGED <<call, walk, appVars>>

CallSampleCircle ==
  /\ pc = "ready"
  /\ call.fn = "sampleCircle"
  /\ ret' = sampleCircle(call.shape, call.samples)
  /\ pc' = "done"
  /\ UNCHANGED <<call, walk, appVars>>

NextMap == CallApplyRotation \/ CallProjectOrthographic \/ CallUvToSphere \/ CallSampleCircle

SpecMap == InitMap /\ [][NextMap]_vars

RotationDone == pc = "done" /\ call.fn = "applyRotation"

QuarterAboutX == Rot(Turn \div 4, 0, 0)

\* C11: rotating (1,0,0) by rx = 90 degrees, ry = rz = 0, moves it into the
\* y/z plane: the result has x = 0.
C11_UnitXLeavesXAxis ==
  (RotationDone /\ call.p = Vec3(R, 0, 0) /\ call.rot = QuarterAboutX) => ret.x = 0

\* C11 as amended: (1,0,0) lies on the axis of the rotation about X and is
\* returned unchanged; the rotation acts in the y/z plane, where rx = 90
\* degrees carries (0,1,0) to (0,0,1).
C11_RotationAboutXFixesXAxis ==
  /\ (RotationDone /\ call.p = Vec3(R, 0, 0) /\ call.rot = QuarterAboutX) =>
       ret = Vec3(R, 0, 0)
  /\ (RotationDone /\ call.p = Vec3(0, R, 0) /\ call.rot = QuarterAboutX) =>
       ret = Vec3(0, 0, R)

\* (1,0,0) was rotated by rx = 90 degrees and came back where it was
C11_Witness ==
  /\ RotationDone
  /\ call.p = Vec3(R, 0, 0)
  /\ call.rot = QuarterAboutX
  /\ ret = call.p

\* C12: applyRotation(p, rot) is Rz(rz) applied to Ry(ry) applied to Rx(rx)
\* applied to p, for every quarter-turn rotation and every point of the
\* pool; with rot = {0,0,0} the point is returned unchanged.
C12_RotationIsRzRyRx ==
  RotationDone =>
    /\ ret = RotZ(RotY(RotX(call.p, call.rot.rx), call.rot.ry), call.rot.rz)
    /\ call.rot = Rot(0, 0, 0) => ret = call.p

\* a rotation about all three axes, whose result depends on the order
C12_Witness ==
  /\ RotationDone
  /\ call.p = Vec3(R, 2 * R, 3 * R)
  /\ call.rot = Rot(Turn \div 4, Turn \div 4, Turn \div 4)
  /\ ret # applyRotationZFirst(call.p, call.rot)
  /\ ret = Vec3(3 * R, 2 * R, -R)

OrthographicDone == pc = "done" /\ call.fn = "projectOrthographic"

\* C13: projectOrthographic returns null exactly when z < 0 with back
\* faces not allowed, and never returns null with back faces allowed;
\* a point that is kept is returned as its x and y.
C13_OrthographicCullsExactlyBackPoints ==
  OrthographicDone =>
    /\ ~call.allowBack => ((ret = Null) <=> (call.p.z < 0))
    /\ call.allowBack => ret # Null
    /\ ret # Null => ret = Vec2XY(call.p.x, call.p.y)

\* a point on the limb is kept, a point just behind it is culled
C13_Witness ==
  /\ OrthographicDone
  /\ ~call.allowBack
  /\ call.p = Vec3(-R, R, 0)
  /\ ret = Vec2XY(-R, R)

CircleDone == pc = "done" /\ call.fn = "sampleCircle"

\* the squared distance of sample k from the centre of the circle
CircleDist2(k) ==
  (ret.points[k].u - call.shape.center.u) * (ret.points[k].u - call.shape.center.u)
    + (ret.points[k].v - call.shape.center.v) * (ret.points[k].v - call.shape.center.v)

\* C17: at density d the circle is sampled in max(64, 2d) equal angular
\* steps, never fewer than 64: the samples lie on the circle (to the
\* precision of the arithmetic), the last one closes it, and a lower
\* density never gives more steps.
C17_CircleStepsGrowWithDensity ==
  CircleDone =>
    /\ ~ret.threw /\ ret.closed
    /\ Len(ret.points) = Max(64, 2 * call.samples) + 1
    /\ Len(ret.points) >= 65
    /\ ret.points[Len(ret.points)] = ret.points[1]
    /\ \A k \in 1..Len(ret.points) :
         Abs(CircleDist2(k) - call.shape.radius * call.shape.radius) <= 4 * call.shape.radius
    /\ \A d \in DensityPool :
         d <= call.samples =>
           Len(sampleCircle(call.shape, d).points) <= Len(ret.points)

\* a density above 32, where the step count follows the density
C17_Witness ==
  /\ CircleDone
  /\ call.samples = 48
  /\ Len(ret.points) = 97

SphereDone == pc = "done" /\ call.fn = "uvToSphere"

Norm3(p) == p.x * p.x + p.y * p.y + p.z * p.z

\* the rounding of the cosine table carried into a squared norm
NormTolerance == Q(R * R, 64)

AllSamplesBehind == \A k \in 1..Len(RotatedSamples) : RotatedSamples[k].z < 0

BackShapeCall ==
  /\ ShapeDone
  /\ call.shape.type \in HandledTypes
  /\ ~call.includeBackFaces
  /\ AllSamplesBehind

\* C14: with back faces not included, a shape of any handled kind whose
\* rotated samples all have z < 0 comes back with no points and without an
\* exception, under every projection.
C14_BackShapeYieldsNoPoints ==
  BackShapeCall => (~ret.threw /\ ret.points = <<>>)

\* a polygon wholly behind the sphere, under a projection that has no cull
\* of its own for such points
C14_Witness ==
  /\ BackShapeCall
  /\ call.shape.type = "polygon"
  /\ call.projection = "perspective"
  /\ ret.points = <<>>
  /\ ~ret.threw

\* C18: the closed flag of the result is fixed by the shape kind, false for
\* a line and true for rect, circle, polygon, latitude and longitude, under
\* every rotation, projection, density, orientation and flag combination,
\* also when no point is returned.
C18_ClosedFixedByShapeKind ==
  (ShapeDone /\ call.shape.type \in HandledTypes) =>
    (~ret.threw /\ ret.closed = (call.shape.type # "line"))

\* a ring that is wholly culled and still reported closed
C18_Witness ==
  /\ ShapeDone
  /\ call.shape.type = "latitude"
  /\ ret.points = <<>>
  /\ ret.closed

PolylineDone == pc = "done" /\ call.fn = "clipPolylineToFrontHemisphere"

\* the segments the clipper walks: the wrap segment only when closed
SegmentCount == IF call.closed THEN Len(call.points) ELSE Len(call.points) - 1

SegmentEnd(i) == call.points[(i % Len(call.points)) + 1]

\* the front part of segment i: its front end points and its crossing
FrontPiece(i) ==
  (IF Front(call.points[i]) THEN {call.points[i]} ELSE {})
    \cup (IF Front(SegmentEnd(i)) THEN {SegmentEnd(i)} ELSE {})
    \cup (IF Front(call.points[i]) # Front(SegmentEnd(i))
            THEN {interpolateAtZ0(call.points[i], SegmentEnd(i))} ELSE {})

\* a and b lie on the front part of one segment of the curve
JoinedOnCurve(a, b) == \E i \in 1..SegmentCount : a \in FrontPiece(i) /\ b \in FrontPiece(i)

\* the maximal runs of front points, counted by their first points
NumFrontRuns ==
  LET starts(i) == /\ Front(call.points[i])
                   /\ IF call.closed THEN ~Front(CycPrev(call.points, i))
                      ELSE (i = 1 \/ ~Front(call.points[i - 1]))
  IN CountIdx(starts, 1, Len(call.points))

\* C15: when the front points of an open or wraparound curve form two or
\* more runs separated by back points, no two consecutive vertices of the
\* returned polyline belong to different runs: every consecutive pair lies
\* on the front part of one segment of the curve.
C15_RunsStayDisjoint ==
  (PolylineDone /\ NumFrontRuns >= 2) =>
    \A j \in 1..(Len(ret) - 1) : JoinedOnCurve(ret[j], ret[j + 1])

\* the vertices lie outside the unit circle
AllOutside(points) == \A k \in 1..Len(points) : Norm2(points[k]) > R * R

\* the open segment from p0 to p1 passes through the interior of the unit
\* disc, in units of g: the foot of the perpendicular from the centre lies
\* inside the segment and nearer than the radius
CutsDiscInUnits(x0, y0, dx, dy, r) ==
  /\ dx * dx + dy * dy > 0
  /\ -(x0 * dx + y0 * dy) > 0
  /\ -(x0 * dx + y0 * dy) < dx * dx + dy * dy
  /\ (x0 * dy - y0 * dx) * (x0 * dy - y0 * dx) < r * r * (dx * dx + dy * dy)

CutsDisc(p0, p1, g) ==
  CutsDiscInUnits(p0.x \div g, p0.y \div g, (p1.x - p0.x) \div g, (p1.y - p0.y) \div g,
                  R \div g)

NoEdgeCutsDisc(points) ==
  \A k \in 1..Len(points) :
    ~CutsDisc(FillPrev(points, k), points[k],
              Gcd(Gcd(Gcd(Abs(FillPrev(points, k).x), Abs(FillPrev(points, k).y)),
                      Gcd(Abs(points[k].x), Abs(points[k].y))), R))

MaxSteps == 3

\* shapes a scene may grow to
MaxShapes == 3

\* horizontal positions of a shape
UPool == {0, 2, 4}

StrokePool == {"#000000", "#ff0000"}

\* a shape of the scene: its id, its kind (a circle of radius ShapeRadius
\* centred at u, or the longitude ring at u), its stroke
ShapeOf(id, type, u, stroke) == [id |-> id, type |-> type, u |-> u, stroke |-> stroke]

\* what uvSvgToShapes makes of a file: the positions of its shapes, or an
\* exception
FilePool == { [ok |-> FALSE, us |-> <<>>], [ok |-> TRUE, us |-> <<0, 0, 4>>],
              [ok |-> TRUE, us |-> <<2>>] }

\* arr.map(f) on a sequence
MapSeq(f(_), arr) == [k \in 1..Len(arr) |-> f(arr[k])]

Ids(sc) == { sc.shapes[k].id : k \in 1..Len(sc.shapes) }

\* the effect run after a commit that leaves sceneRef.current as it was
SyncSceneRefSkipped(ref, sc) == ref

\* useEffect(() => { sceneRef.current = scene }, [scene])
SyncSceneRef(ref, sc) == sc

\* setHistory((h) => [...h, sceneRef.current])
pushHistory(h, ref) == Append(h, ref)

\* the commit of a handler that recorded history and set the scene to sc
Recorded(op, sc) ==
  /\ history' = pushHistory(history, sceneRef)
  /\ future' = <<>>
  /\ scene' = sc
  /\ sceneRef' = SyncSceneRef(sceneRef, sc)
  /\ before' = Append(before, scene)
  /\ lastOp' = op
  /\ handled' = handled + 1
  /\ gesture' = Null

\* the commit of a handler that left the history alone
Unrecorded(op, sc) ==
  /\ scene' = sc
  /\ sceneRef' = SyncSceneRef(sceneRef, sc)
  /\ lastOp' = op
  /\ handled' = handled + 1
  /\ gesture' = Null
  /\ UNCHANGED <<history, future, before>>

AppReady == pc = "app" /\ handled < MaxSteps

InitApp ==
  /\ pc = "app"
  /\ call = NoRet
  /\ ret = NoRet
  /\ walk = NoWalk
  /\ AppMounted

handleAddShape ==
  /\ AppReady
  /\ Len(scene.shapes) < MaxShapes
  /\ \E u \in UPool, type \in {"circle", "longitude"} :
       LET shape == ShapeOf(shapeCounter + 1, type, u, "#000000") IN
         /\ Recorded("handleAddShape", [shapes |-> Append(scene.shapes, shape)])
         /\ selectedIds' = {shape.id}
  /\ shapeCounter' = shapeCounter + 1
  /\ UNCHANGED <<pc, call, ret, walk, viewVars, editorVars, alerted>>

\* onSelectShapes = setSelectedIds
onSelectShapes ==
  /\ AppReady
  /\ \E ids \in SUBSET Ids(scene) :
       /\ ids # selectedIds
       /\ selectedIds' = ids
  /\ Unrecorded("onSelectShapes", scene)
  /\ UNCHANGED <<pc, call, ret, walk, viewVars, editorVars, alerted, shapeCounter>>

\* onStartShapeTransform = pushHistory
onStartShapeTransform ==
  /\ AppReady
  /\ Recorded("onStartShapeTransform", scene)
  /\ UNCHANGED <<pc, call, ret, walk, viewVars, editorVars, alerted, selectedIds, shapeCounter>>

\* onTransformShape = handleUpdateShape(id, () => shape, false)
onTransformShape ==
  /\ AppReady
  /\ \E id \in Ids(scene), u \in UPool :
       LET moved(s) == IF s.id = id THEN [s EXCEPT !.u = u] ELSE s IN
         /\ [shapes |-> MapSeq(moved, scene.shapes)] # scene
         /\ Unrecorded("onTransformShape", [shapes |-> MapSeq(moved, scene.shapes)])
  /\ UNCHANGED <<pc, call, ret, walk, viewVars, editorVars, alerted, selectedIds, shapeCounter>>

handleDeleteSelected ==
  /\ AppReady
  /\ selectedIds # {}
  /\ Recorded("handleDeleteSelected",
              [shapes |-> SelectSeq(scene.shapes, LAMBDA s : s.id \notin selectedIds)])
  /\ selectedIds' = {}
  /\ UNCHANGED <<pc, call, ret, walk, viewVars, editorVars, alerted, shapeCounter>>

handleDuplicateSelected ==
  /\ AppReady
  /\ selectedIds # {}
  /\ LET shapesToCopy == SelectSeq(scene.shapes, LAMBDA s : s.id \in selectedIds)
         clones == [k \in 1..Len(shapesToCopy) |->
                      [shapesToCopy[k] EXCEPT !.id = shapeCounter + k]]
     IN /\ Len(shapesToCopy) > 0
        /\ Len(scene.shapes) + Len(clones) <= MaxShapes
        /\ Recorded("handleDuplicateSelected", [shapes |-> scene.shapes \o clones])
        /\ selectedIds' = { clones[k].id : k \in 1..Len(clones) }
        /\ shapeCounter' = shapeCounter + Len(clones)
  /\ UNCHANGED <<pc, call, ret, walk, viewVars, editorVars, alerted>>

\* onStrokeChange: updateSelectedShapes((s) => ({ ...s, stroke: value }))
onStrokeChange ==
  /\ AppReady
  /\ selectedIds # {}
  /\ \E value \in StrokePool :
       LET updater(s) == IF s.id \in selectedIds THEN [s EXCEPT !.stroke = value] ELSE s IN
         Recorded("onStrokeChange", [shapes |-> MapSeq(updater, scene.shapes)])
  /\ UNCHANGED <<pc, call, ret, walk, viewVars, editorVars, alerted, selectedIds, shapeCounter>>

\* the radius of every circle, in the units of UPool
ShapeRadius == 1

shapeBounds(shape) ==
  IF shape.type = "circle"
  THEN [minU |-> shape.u - ShapeRadius, maxU |-> shape.u + ShapeRadius]
  ELSE [minU |-> shape.u, maxU |-> shape.u]

moveShapeBy(shape, du) == [shape EXCEPT !.u = @ + du]

\* the u of shapeCenter
shapeCenter(shape) == shape.u

setShapeCenter(shape, u) == moveShapeBy(shape, u - shapeCenter(shape))

\* scene.shapes.filter((s) => selectedIds.includes(s.id))
selectedShapes == SelectSeq(scene.shapes, LAMBDA s : s.id \in selectedIds)

\* the selected shapes that are not rings
Targets == SelectSeq(selectedShapes, LAMBDA s : s.type # "longitude")

MinOf(S) == CHOOSE m \in S : \A n \in S : m <= n

MaxOf(S) == CHOOSE m \in S : \A n \in S : m >= n

\* alignSelected('h', mode)
alignSelected ==
  /\ AppReady
  /\ Len(Targets) >= 2
  /\ \E mode \in {"start", "end"} :
       LET globalMin == MinOf({ shapeBounds(Targets[k]).minU : k \in 1..Len(Targets) })
           globalMax == MaxOf({ shapeBounds(Targets[k]).maxU : k \in 1..Len(Targets) })
           targetCoord == IF mode = "start" THEN globalMin ELSE globalMax
           aligned(s) ==
             IF s.id \notin selectedIds \/ s.type = "longitude" THEN s
             ELSE IF mode = "start" THEN moveShapeBy(s, targetCoord - shapeBounds(s).minU)
             ELSE moveShapeBy(s, targetCoord - shapeBounds(s).maxU)
       IN Recorded("alignSelected", [shapes |-> MapSeq(aligned, scene.shapes)])
  /\ UNCHANGED <<pc, call, ret, walk, viewVars, editorVars, alerted, selectedIds, shapeCounter>>

\* the index of a target in [...targets].sort(by centre), a stable sort
SortedIndex(targets, k) ==
  Cardinality({ j \in 1..Len(targets) :
                  \/ shapeCenter(targets[j]) < shapeCenter(targets[k])
                  \/ shapeCenter(targets[j]) = shapeCenter(targets[k]) /\ j < k })

\* distributeSelected('h')
distributeSelected ==
  /\ AppReady
  /\ Len(Targets) >= 3
  /\ LET n == Len(Targets)
         centers == { shapeCenter(Targets[k]) : k \in 1..n }
         min == MinOf(centers)
         max == MaxOf(centers)
         distributed(s) ==
           IF \E k \in 1..n : Targets[k].id = s.id
           THEN LET k == CHOOSE k \in 1..n : Targets[k].id = s.id
                IN setShapeCenter(s, min + Q((max - min) * SortedIndex(Targets, k), n - 1))
           ELSE s
     IN Recorded("distributeSelected", [shapes |-> MapSeq(distributed, scene.shapes)])
  /\ UNCHANGED <<pc, call, ret, walk, viewVars, editorVars, alerted, selectedIds, shapeCounter>>

\* reader.onload of handleLoadUv
handleLoadUv ==
  /\ AppReady
  /\ \E file \in FilePool :
       IF file.ok
       THEN /\ Recorded("handleLoadUv",
                        [shapes |-> [k \in 1..Len(file.us) |->
                                       ShapeOf(shapeCounter + k, "circle", file.us[k], "#000000")]])
            /\ selectedIds' = {}
            /\ shapeCounter' = shapeCounter + Len(file.us)
            /\ alerted' = FALSE
       ELSE /\ Unrecorded("handleLoadUv", scene)
            /\ alerted' = TRUE
            /\ UNCHANGED <<selectedIds, shapeCounter>>
  /\ UNCHANGED <<pc, call, ret, walk, viewVars, editorVars>>

handleUndo ==
  /\ AppReady
  /\ IF history = <<>>
     THEN /\ Unrecorded("handleUndo", scene)
          /\ UNCHANGED selectedIds
     ELSE LET prev == history[Len(history)] IN
            /\ history' = SubSeq(history, 1, Len(history) - 1)
            /\ future' = <<sceneRef>> \o future
            /\ scene' = prev
            /\ sceneRef' = SyncSceneRef(sceneRef, prev)
            /\ selectedIds' = { id \in selectedIds : id \in Ids(prev) }
            /\ before' = SubSeq(before, 1, Len(before) - 1)
            /\ lastOp' = "handleUndo"
            /\ handled' = handled + 1
            /\ gesture' = Null
  /\ UNCHANGED <<pc, call, ret, walk, viewVars, editorVars, alerted, shapeCounter>>

\* pointer moves in one drag
MaxMoves == 2

\* the value 1.0 of a position, in the units of UPool
UOne == 4

\* positions of the pointer along u
PointerPool == {0, 2}

clamp01(x) == IF x < 0 THEN 0 ELSE IF x > UOne THEN UOne ELSE x

\* moveShape of the UV editor, along u
moveShape(shape, du) ==
  IF shape.type = "longitude"
  THEN [shape EXCEPT !.u = clamp01(@ + du)]
  ELSE [shape EXCEPT !.u = @ + du]

\* the history after handleUpdateShape called with recordHistory true
historyOnRecordedUpdate(h, ref) == pushHistory(h, ref)

\* the history after onTransformShape, which calls handleUpdateShape with
\* recordHistory false: if (recordHistory) pushHistory()
historyOnTransform(h, ref) == h

\* onPointerDown of a shape with the select tool
shapePointerDown ==
  /\ AppReady
  /\ \E k \in 1..Len(scene.shapes), additive \in BOOLEAN, uv \in PointerPool :
       LET shape == scene.shapes[k] IN
         IF additive
         THEN /\ selectedIds' = IF shape.id \in selectedIds
                                THEN selectedIds \ {shape.id}
                                ELSE selectedIds \cup {shape.id}
              /\ Unrecorded("shapePointerDown", scene)
              /\ UNCHANGED editorVars
         ELSE /\ selectedIds' = {shape.id}
              /\ history' = pushHistory(history, sceneRef)
              /\ future' = <<>>
              /\ movingId' = [id |-> shape.id]
              /\ movingStart' = [u |-> uv]
              /\ movingSnapshot' = shape
              /\ moves' = 0
              /\ sceneRef' = SyncSceneRef(sceneRef, scene)
              /\ before' = Append(before, scene)
              /\ gesture' = [scene |-> scene, history |-> history]
              /\ lastOp' = "shapePointerDown"
              /\ handled' = handled + 1
              /\ UNCHANGED scene
  /\ UNCHANGED <<pc, call, ret, walk, viewVars, shapeCounter, alerted>>

\* handlePointerMove while a shape is being moved
handlePointerMove ==
  /\ pc = "app"
  /\ movingId # Null /\ movingSnapshot # Null /\ movingStart # Null
  /\ moves < MaxMoves
  /\ \E uv \in PointerPool :
       LET updated == moveShape(movingSnapshot, uv - movingStart.u)
           replaced(s) == IF s.id = movingId.id THEN updated ELSE s
           sc == [shapes |-> MapSeq(replaced, scene.shapes)]
       IN /\ scene' = sc
          /\ sceneRef' = SyncSceneRef(sceneRef, sc)
          /\ history' = historyOnTransform(history, sceneRef)
  /\ moves' = moves + 1
  /\ lastOp' = "handlePointerMove"
  /\ UNCHANGED <<pc, call, ret, walk, viewVars, future, selectedIds, shapeCounter,
                 movingId, movingStart, movingSnapshot, before, handled, gesture, alerted>>

\* handlePointerUp while a shape is being moved: resetMove
handlePointerUp ==
  /\ pc = "app"
  /\ movingId # Null
  /\ movingId' = Null /\ movingStart' = Null /\ movingSnapshot' = Null
  /\ lastOp' = "handlePointerUp"
  /\ UNCHANGED <<pc, call, ret, walk, viewVars, scene, history, future, sceneRef,
                 selectedIds, shapeCounter, moves, before, handled, gesture, alerted>>

\* the content of a .jojosphere file: unparsable text, another version, no
\* scene, a complete state, a state without rotation
JojoPool ==
  { [json |-> FALSE],
    [json |-> TRUE, version |-> 2, scene |-> [shapes |-> <<>>],
     rotation |-> [rotX |-> 0, rotY |-> 0, rotZ |-> 0], showGuides |-> TRUE],
    [json |-> TRUE, version |-> 1, scene |-> Null,
     rotation |-> [rotX |-> 0, rotY |-> 0, rotZ |-> 0], showGuides |-> TRUE],
    [json |-> TRUE, version |-> 1,
     scene |-> [shapes |-> <<ShapeOf(101, "circle", 2, "#ff0000")>>],
     rotation |-> [rotX |-> 90, rotY |-> 0, rotZ |-> 45], showGuides |-> FALSE],
    [json |-> TRUE, version |-> 1,
     scene |-> [shapes |-> <<ShapeOf(101, "circle", 2, "#ff0000")>>],
     rotation |-> Null, showGuides |-> FALSE] }

\* parseJojosphere: the parsed state, or an exception
parseJojosphere(file) ==
  IF ~file.json THEN [threw |-> TRUE]
  ELSE IF file.version # 1 THEN [threw |-> TRUE]
  ELSE IF file.scene = Null THEN [threw |-> TRUE]
  ELSE [threw |-> FALSE, state |-> file]

\* reader.onload of handleLoadJojosphere: the setters called before an
\* exception take effect, the catch shows the alert
handleLoadJojosphere ==
  /\ AppReady
  /\ \E file \in JojoPool :
       LET parsed == parseJojosphere(file) IN
         IF parsed.threw
         THEN /\ Unrecorded("handleLoadJojosphere", scene)
              /\ alerted' = TRUE
              /\ UNCHANGED <<viewVars, selectedIds>>
         ELSE IF parsed.state.rotation = Null
         THEN \* state.rotation.rotX throws after pushHistory and setScene
              /\ Recorded("handleLoadJojosphere", parsed.state.scene)
              /\ alerted' = TRUE
              /\ UNCHANGED <<viewVars, selectedIds>>
         ELSE /\ Recorded("handleLoadJojosphere", parsed.state.scene)
              /\ rotX' = parsed.state.rotation.rotX
              /\ rotY' = parsed.state.rotation.rotY
              /\ rotZ' = parsed.state.rotation.rotZ
              /\ showGuides' = parsed.state.showGuides
              /\ selectedIds' = {}
              /\ alerted' = FALSE
  /\ UNCHANGED <<pc, call, ret, walk, editorVars, shapeCounter>>

NextApp ==
  \/ handleLoadJojosphere
  \/ shapePointerDown
  \/ handlePointerMove
  \/ handlePointerUp
  \/ handleAddShape
  \/ onSelectShapes
  \/ onStartShapeTransform
  \/ onTransformShape
  \/ handleDeleteSelected
  \/ handleDuplicateSelected
  \/ onStrokeChange
  \/ alignSelected
  \/ distributeSelected
  \/ handleLoadUv
  \/ handleUndo

SpecApp == InitApp /\ [][NextApp]_vars

\* C20: every Undo with a non-empty history sets the scene to the value it
\* had immediately before the most recent history-recording change not yet
\* undone (add, delete, duplicate, colour change, align, distribute,
\* transform start, file load) and removes exactly the last entry of the
\* history stack; an Undo with an empty history leaves scene, history,
\* redo stack and selection as they were.
C20_UndoRevertsLastChange ==
  [][(lastOp' = "handleUndo" /\ handled' = handled + 1) =>
       IF history = <<>>
       THEN scene' = scene /\ history' = history /\ future' = future /\ selectedIds' = selectedIds
       ELSE /\ scene' = before[Len(before)]
            /\ history' = SubSeq(history, 1, Len(history) - 1)]_vars

\* an Undo has just reverted a change made on top of an earlier change
C20_Witness ==
  /\ lastOp = "handleUndo"
  /\ Len(history) >= 1
  /\ Len(future) = 1
  /\ scene # initialScene
  /\ future[1] # scene

(* ---------------------------------------------------------------------- *)
(* Drags and file loads                                                    *)
(* ---------------------------------------------------------------------- *)

\* C21: from the pointer-down on a shape until another command runs, the
\* history is the history before the pointer-down plus the one entry pushed
\* at the pointer-down (the scene of that moment): no pointer move and no
\* pointer-up pushes anything; and an Undo that directly follows the
\* pointer-up of the drag sets the scene to the one before the drag.
C21_OneHistoryEntryPerDrag ==
  [][/\ gesture' # Null => history' = Append(gesture'.history, gesture'.scene)
     /\ (lastOp' = "handleUndo" /\ handled' = handled + 1
           /\ lastOp = "handlePointerUp" /\ gesture # Null)
          => scene' = gesture.scene /\ history' = gesture.history]_vars

\* add or load, drag a shape to another position and release, undo: the
\* scene is the one before the drag, the dragged scene is on the redo stack
C21_Witness ==
  /\ lastOp = "handleUndo"
  /\ handled = 3
  /\ moves > 0
  /\ movingId = Null
  /\ Len(history) = 1
  /\ Len(future) = 1
  /\ Len(future[1].shapes) = Len(scene.shapes)
  /\ \E k \in 1..Len(scene.shapes) : future[1].shapes[k].u # scene.shapes[k].u

\* C30: a .jojosphere load that shows the alert leaves scene, rotation
\* angles, display setting, selection and history as they were.
C30_FailedLoadChangesNothing ==
  [][(lastOp' = "handleLoadJojosphere" /\ handled' = handled + 1 /\ alerted')
       => UNCHANGED <<scene, rotX, rotY, rotZ, showGuides, selectedIds, history>>]_vars

(* ---------------------------------------------------------------------- *)
(* The edge walk of the silhouette clipper                                 *)
(* ---------------------------------------------------------------------- *)

\* the walk stands before an edge
AtEdge == pc = "walking" /\ walk.i <= Len(call.points)

\* the walk stands before an edge from a vertex classified outside to a
\* vertex classified inside, with an arc pending
EnteringWithPending ==
  /\ AtEdge
  /\ ~inside(FillPrev(call.points, walk.i))
  /\ inside(call.points[walk.i])
  /\ walk.pendingArcStart # Null

\* p1 is not clockwise of p0 (counter-clockwise sweep) or not
\* counter-clockwise of it (clockwise sweep)
SweptAlong(p0, p1, ccw) ==
  IF ccw THEN p0.x * p1.y - p0.y * p1.x >= 0 ELSE p0.x * p1.y - p0.y * p1.x <= 0

\* C22: an edge from an outside vertex to an inside vertex walked while an
\* arc is pending appends an arc of at least 4 points that starts at the
\* pending point in the winding direction and ends at the entry
\* intersection on the circle, then the edge endpoint, and leaves no arc
\* pending.
C22_EnteringEdgeResolvesArc ==
  [][EnteringWithPending =>
       /\ walk'.pendingArcStart = Null
       /\ Len(walk'.output) >= Len(walk.output) + 5
       /\ SubSeq(walk'.output, 1, Len(walk.output)) = walk.output
       /\ walk'.output[Len(walk'.output)] = call.points[walk.i]
       /\ OnCircle(walk'.output[Len(walk'.output) - 1])
       /\ \A k \in (Len(walk.output) + 1)..(Len(walk'.output) - 1) : OnCircle(walk'.output[k])
       /\ SweptAlong(walk.pendingArcStart, walk'.output[Len(walk.output) + 1], walk.ccw)]_vars

\* C23: when the walk ends with an arc pending, the result is the output of
\* the walk followed by an arc of at least 4 points on the circle whose
\* last point is the first point of the output; when it ends with no arc
\* pending, the result is the output of the walk.
C23_PendingArcClosesToFirstPoint ==
  (FillDone /\ Len(call.points) > 0) =>
    IF walk.pendingArcStart # Null
    THEN /\ Len(walk.output) > 0
         /\ Len(ret) >= Len(walk.output) + 4
         /\ SubSeq(ret, 1, Len(walk.output)) = walk.output
         /\ ret[Len(ret)] = ret[1]
         /\ \A k \in (Len(walk.output) + 1)..(Len(ret) - 1) : OnCircle(ret[k])
    ELSE ret = walk.output

\* a polygon that left the disc and never came back was closed by an arc
C23_Witness ==
  /\ FillDone
  /\ Len(call.points) > 0
  /\ walk.pendingArcStart # Null
  /\ Len(ret) >= Len(walk.output) + 4
  /\ ret[Len(ret)] = ret[1]

\* C26: after every edge of the walk, an arc is pending only if the vertex
\* just processed is classified outside, also for vertices on the circle
\* that are inside by the tolerance only.
C26_PendingOnlyAfterOutsideVertex ==
  (pc = "walking" /\ walk.i > 1 /\ walk.pendingArcStart # Null) =>
    ~inside(call.points[walk.i - 1])

\* farthest a computed point may lie from the origin, squared
DiscTolerance == R * R + Q(R * R, 100)

HemiDone == pc = "done" /\ call.fn \in {"clipPolygonToFrontHemisphere", "clipPolylineToFrontHemisphere"}

\* the iterations of the loop of the clipper called
HemiIterations ==
  IF Len(call.points) = 0 THEN {}
  ELSE IF call.fn = "clipPolygonToFrontHemisphere" \/ call.closed THEN 1..Len(call.points)
  ELSE 1..(Len(call.points) - 1)

\* the calls of interpolateAtZ0 made in iteration i
HemiCrossing(i) ==
  IF call.fn = "clipPolygonToFrontHemisphere"
  THEN PolygonCrossing(call.points, i)
  ELSE PolylineCrossing(call.points, i)

\* C28: every call interpolateAtZ0(p0, p1) of the two hemisphere clippers
\* has exactly one of p0.z, p1.z at or above 0, so p0.z - p1.z is not 0,
\* t = p0.z / (p0.z - p1.z) lies in [0, 1], and the point returned, which
\* goes into the result, has z = 0.
C28_InterpolationWellDefined ==
  HemiDone =>
    \A i \in HemiIterations : \A k \in 1..Len(HemiCrossing(i)) :
      LET p0 == HemiCrossing(i)[k].p0
          p1 == HemiCrossing(i)[k].p1
      IN /\ (p0.z >= 0) # (p1.z >= 0)
         /\ p0.z - p1.z # 0
         /\ p0.z * (p0.z - p1.z) >= 0
         /\ Abs(p0.z) <= Abs(p0.z - p1.z)
         /\ interpolateAtZ0(p0, p1).z = 0
         /\ \E j \in 1..Len(ret) : ret[j] = interpolateAtZ0(p0, p1)

\* a clip that interpolated on an edge leaving the front from a point on
\* the plane z = 0 and on an edge coming back from behind
C28_Witness ==
  /\ HemiDone
  /\ \E i \in HemiIterations : \E k \in 1..Len(HemiCrossing(i)) :
       HemiCrossing(i)[k].p0.z = 0 /\ HemiCrossing(i)[k].p1.z < 0
  /\ \E i \in HemiIterations : \E k \in 1..Len(HemiCrossing(i)) :
       HemiCrossing(i)[k].p0.z < 0 /\ HemiCrossing(i)[k].p1.z > 0

(* ---------------------------------------------------------------------- *)
(* Rings, the silhouette clipper and the split inside the pipeline         *)
(* ---------------------------------------------------------------------- *)

\* the (x, y) of a point of the sphere
XY(p) == Vec2XY(p.x, p.y)

\* the points of a result of the non-split path are as many as the front
\* samples and the crossings of the closed curve through them
ClosedClipCount(rot, points) == Len(points) = NumFront(rot) + NumCyclicCrossings(rot)

\* when the edge from the last sample to the first crosses z = 0, its
\* crossing is the last point of the result, as the open-curve clipper
\* leaves it, and not the first, where the polygon clipper puts it
WrapEdgeLast(rot, points) ==
  (Len(rot) > 0 /\ Front(rot[1]) # Front(rot[Len(rot)])) =>
    /\ Len(points) > 0
    /\ points[Len(points)] = XY(interpolateAtZ0(rot[Len(rot)], rot[1]))

RingCall ==
  /\ ShapeDone
  /\ IsRing(call.shape)
  /\ ~call.includeBackFaces
  /\ call.projection \in ProjectionTypes

\* C24: a latitude or longitude ring with back faces not included is
\* clipped by the open-curve clipper with the one extra edge from the last
\* sample to the first and not by the polygon clipper, although its closed
\* flag is true: under orthographic projection the result has one point per
\* front sample and per crossing of the closed curve, the crossing of the
\* wrap-around edge last.
C24_RingsClippedAsWrappedCurves ==
  RingCall =>
    /\ ~ret.threw
    /\ ret.closed
    /\ ret.hemi = "polyline-wrap"
    /\ call.projection = "orthographic" =>
         (ClosedClipCount(RotatedSamples, ret.points) /\ WrapEdgeLast(RotatedSamples, ret.points))

\* a longitude ring whose wrap-around edge crosses the plane z = 0
C24_Witness ==
  /\ RingCall
  /\ call.shape.type = "longitude"
  /\ call.projection = "orthographic"
  /\ Front(RotatedSamples[1]) # Front(RotatedSamples[Len(RotatedSamples)])
  /\ Len(ret.points) > 2

\* q is the (x, y) of a sample or of the crossing of the edge from a sample
\* to the next one
FromSamples(rot, q) ==
  \E k \in 1..Len(rot) :
    \/ q = XY(rot[k])
    \/ /\ Front(rot[k]) # Front(rot[(k % Len(rot)) + 1])
       /\ q = XY(interpolateAtZ0(rot[k], rot[(k % Len(rot)) + 1]))

\* the result is what went into the silhouette clipper: sample and crossing
\* points only, all in the unit disc, none added
FillLeftAlone(rot, points, includeBackFaces) ==
  /\ \A j \in 1..Len(points) : Norm2(points[j]) <= R * R /\ FromSamples(rot, points[j])
  /\ IF includeBackFaces THEN Len(points) = Len(rot) ELSE ClosedClipCount(rot, points)

\* a call of the pipeline that ran the silhouette clipper
FillCall == ShapeDone /\ ~ret.threw /\ ret.fill

XYs(pts) == [k \in 1..Len(pts) |-> XY(pts[k])]

\* points holds the samples with z >= 0 and back the others, in order
SplitPartition(rot, points, back) ==
  /\ points = XYs(SelectSeq(rot, LAMBDA p : p.z >= 0))
  /\ back = XYs(SelectSeq(rot, LAMBDA p : p.z < 0))
  /\ Len(points) + Len(back) = Len(rot)

SplitCall == ShapeDone /\ ~ret.threw /\ ret.split /\ call.projection = "orthographic"

\* C29: on the split branch under orthographic projection every sample is
\* in exactly one of the two sequences, in points iff its rotated z >= 0,
\* in the order of the samples, and the two lengths add up to the number
\* of samples.
C29_SplitPartitionsSamples ==
  SplitCall => SplitPartition(RotatedSamples, ret.points, ret.backPoints)

\* a split with samples in front, behind and on the limb
C29_Witness ==
  /\ SplitCall
  /\ Len(ret.points) > 0
  /\ Len(ret.backPoints) > 0
  /\ \E k \in 1..Len(RotatedSamples) : RotatedSamples[k].z = 0

====
